---- MODULE Spec2Model ----
(***************************************************************************)
(* Model of src/main.rs: a brainfuck interpreter.  main() tokenizes the    *)
(* embedded source, folds runs of identical unit instructions, resolves    *)
(* the jump target of every bracket and runs the dispatch loop.            *)
(*                                                                         *)
(* Rust indices are 0-based; a Vec is a TLA+ sequence read through At.     *)
(* usize is modelled with USIZE_BITS bits.  Arithmetic overflow of a usize *)
(* panics when the build has overflow checks (the dev profile) and wraps   *)
(* when it has not (the release profile): overflow_checks is that choice.  *)
(***************************************************************************)
EXTENDS Integers, Sequences, FiniteSets, TLC

VARIABLES hello,            \* the source bytes, include_str!("../hello.bf")
          program,          \* the State struct
          pc,               \* position in main
          panic,            \* "none", or the message of the panic that ended the process
          stdin,            \* standard input: [bytes, pos], pos bytes have been read
          stdout,           \* bytes written to standard output
          overflow_checks,  \* build profile: TRUE panics on overflow, FALSE wraps
          trail             \* history: indices of the last two dispatched instructions

vars == <<hello, program, pc, panic, stdin, stdout, overflow_checks, trail>>

----------------------------------------------------------------------------
(* Bounds *)

MaxLen == 3          \* every source of at most MaxLen bytes is explored
MaxInput == 1        \* standard input holds at most MaxInput bytes
USIZE_BITS == 9      \* width of usize in the model
MaxMove == 3         \* pointer moves tried by the round-trip property
RUN_BITS == 12       \* a reference run is followed for 2^RUN_BITS dispatch steps
MaxOutput == 8       \* Output is dispatched while stdout holds fewer bytes than this

(* Program constants *)

U8Mod == 256

UsizeMod == 2 ^ USIZE_BITS
IsizeMax == (UsizeMod \div 2) - 1     \* a Vec<u8> cannot hold more than isize::MAX bytes

----------------------------------------------------------------------------
(* Sources *)

SourceBytes == {62, 60, 43, 45, 46, 44, 91, 93, 32}
InputBytes == {0, 65}

HelloSrc ==
  << 43, 43, 43, 43, 43, 43, 43, 43, 91, 62, 43, 43, 43, 43,
     91, 62, 43, 43, 62, 43, 43, 43, 62, 43, 43, 43, 62, 43,
     60, 60, 60, 60, 45, 93, 62, 43, 62, 43, 62, 45, 62, 62,
     43, 91, 60, 93, 60, 45, 93, 62, 62, 46, 62, 45, 45, 45,
     46, 43, 43, 43, 43, 43, 43, 43, 46, 46, 43, 43, 43, 46 >>

SeqsUpTo(S, n) == UNION {[1..k -> S] : k \in 0..n}

(* a source of n bytes b *)
Rep(b, n) == [k \in 1..n |-> b]

----------------------------------------------------------------------------
(* Vec access *)

At(v, i) == v[i + 1]

Zeros(n) == [k \in 1..n |-> 0]

Tok(op, arg) == [op |-> op, arg |-> arg]

(* State::new *)
NewState == [memptr |-> 0, instptr |-> 0, memory |-> <<>>, inst |-> <<>>, last |-> 0]

(* usize arithmetic: [ok, val] *)
usize_add(a, b) ==
  IF a + b < UsizeMod THEN [ok |-> TRUE, val |-> a + b]
  ELSE IF overflow_checks THEN [ok |-> FALSE, val |-> a]
  ELSE [ok |-> TRUE, val |-> (a + b) % UsizeMod]

usize_sub(a, b) ==
  IF a >= b THEN [ok |-> TRUE, val |-> a - b]
  ELSE IF overflow_checks THEN [ok |-> FALSE, val |-> a]
  ELSE [ok |-> TRUE, val |-> (a - b) % UsizeMod]

(* wrapping_add written as a saturating add *)
saturating_add(v, n) == IF v + n > U8Mod - 1 THEN U8Mod - 1 ELSE v + n

(* u8 arithmetic *)
wrapping_add(v, n) == (v + n) % U8Mod
wrapping_sub(v, n) == (v - n) % U8Mod

----------------------------------------------------------------------------
(* The three passes of main are loops over an index.  Each loop is written  *)
(* as its body (one iteration) and an operator that runs the iterations     *)
(* lo..hi-1 in order: the first half, then the second half on its result.   *)
(* The halving and the test on the result of the first half only keep the   *)
(* depth of evaluation logarithmic; the iterations run in index order.      *)

(* The tokenizer loop of main: st is [inst, curr] *)
push_unit(st, t) == [inst |-> Append(st.inst, t), curr |-> st.curr + 1]

(* lex_byte that counts the bytes it skips *)
lex_byte_counting_all(st, b) ==
  CASE b = 62 -> push_unit(st, Tok("Right", 1))
    [] b = 60 -> push_unit(st, Tok("Left", 1))
    [] b = 43 -> push_unit(st, Tok("Incriment", 1))
    [] b = 45 -> push_unit(st, Tok("Decriment", 1))
    [] b = 46 -> push_unit(st, Tok("Output", 0))
    [] b = 44 -> push_unit(st, Tok("Input", 0))
    [] b = 91 -> push_unit(st, Tok("Open", 1))
    [] b = 93 -> push_unit(st, Tok("Close", 1))
    [] OTHER -> [st EXCEPT !.curr = @ + 1]

lex_byte(st, b) ==
  CASE b = 62 -> push_unit(st, Tok("Right", 1))
    [] b = 60 -> push_unit(st, Tok("Left", 1))
    [] b = 43 -> push_unit(st, Tok("Incriment", 1))
    [] b = 45 -> push_unit(st, Tok("Decriment", 1))
    [] b = 46 -> push_unit(st, Tok("Output", 0))
    [] b = 44 -> push_unit(st, Tok("Input", 0))
    [] b = 91 -> push_unit(st, Tok("Open", 1))
    [] b = 93 -> push_unit(st, Tok("Close", 1))
    [] OTHER -> st

RECURSIVE lex_loop(_, _, _, _)
lex_loop(bytes, lo, hi, st) ==
  IF hi <= lo THEN st
  ELSE IF hi = lo + 1 THEN lex_byte(st, At(bytes, lo))
  ELSE LET mid == (lo + hi) \div 2
           first == lex_loop(bytes, lo, mid, st)
       IN IF first.curr >= 0 THEN lex_loop(bytes, mid, hi, first) ELSE first

Tokenized(bytes) == lex_loop(bytes, 0, Len(bytes), [inst |-> <<>>, curr |-> 0])

----------------------------------------------------------------------------
(* The folding pass of main *)

(* fold_one that merges a run without counting it *)
fold_one_uncounted(new_inst, t) ==
  LET n == Len(new_inst)
      val == new_inst[n]
  IN IF t.op \in {"Right", "Left", "Incriment", "Decriment"}
     THEN IF n # 0 /\ val.op = t.op THEN new_inst ELSE Append(new_inst, Tok(t.op, 1))
     ELSE Append(new_inst, t)

(* fold_one that never merges a Left *)
fold_one_left_unmerged(new_inst, t) ==
  LET n == Len(new_inst)
      val == new_inst[n]
  IN CASE t.op = "Right" ->
            IF n # 0 /\ val.op = t.op
            THEN [new_inst EXCEPT ![n] = Tok(t.op, val.arg + 1)]
            ELSE Append(new_inst, Tok(t.op, 1))
       [] t.op = "Left" -> Append(new_inst, Tok(t.op, 1))
       [] t.op \in {"Incriment", "Decriment"} ->
            IF n # 0 /\ val.op = t.op
            THEN [new_inst EXCEPT ![n] = Tok(t.op, wrapping_add(val.arg, 1))]
            ELSE Append(new_inst, Tok(t.op, 1))
       [] OTHER -> Append(new_inst, t)

(* fold_one whose Incriment and Decriment counts stop at 255 *)
fold_one_saturating(new_inst, t) ==
  LET n == Len(new_inst)
      val == new_inst[n]
  IN CASE t.op \in {"Right", "Left"} ->
            IF n # 0 /\ val.op = t.op
            THEN [new_inst EXCEPT ![n] = Tok(t.op, val.arg + 1)]
            ELSE Append(new_inst, Tok(t.op, 1))
       [] t.op \in {"Incriment", "Decriment"} ->
            IF n # 0 /\ val.op = t.op
            THEN [new_inst EXCEPT ![n] =
                    Tok(t.op, IF val.arg = U8Mod - 1 THEN val.arg ELSE val.arg + 1)]
            ELSE Append(new_inst, Tok(t.op, 1))
       [] OTHER -> Append(new_inst, t)

fold_one(new_inst, t) ==
  LET n == Len(new_inst)
      val == new_inst[n]
  IN CASE t.op \in {"Right", "Left"} ->
            IF n # 0 /\ val.op = t.op
            THEN [new_inst EXCEPT ![n] = Tok(t.op, val.arg + 1)]
            ELSE Append(new_inst, Tok(t.op, 1))
       [] t.op \in {"Incriment", "Decriment"} ->
            IF n # 0 /\ val.op = t.op
            THEN [new_inst EXCEPT ![n] = Tok(t.op, wrapping_add(val.arg, 1))]
            ELSE Append(new_inst, Tok(t.op, 1))
       [] OTHER -> Append(new_inst, t)

RECURSIVE fold_loop(_, _, _, _)
fold_loop(inst, lo, hi, new_inst) ==
  IF hi <= lo THEN new_inst
  ELSE IF hi = lo + 1 THEN fold_one(new_inst, At(inst, lo))
  ELSE LET mid == (lo + hi) \div 2
           first == fold_loop(inst, lo, mid, new_inst)
       IN IF Len(first) >= 0 THEN fold_loop(inst, mid, hi, first) ELSE first

Folded(inst, last) == fold_loop(inst, 0, last, <<>>)

----------------------------------------------------------------------------
(* The jump resolver: forward_ofset, rev_ofset and the resolver pass of main. *)
(* The state of a scan is [pos, local_level, err]; err is the panic message, *)
(* "none" without one.  A while loop is its body (one iteration) and an      *)
(* operator that runs at most 2^k iterations, stopping when the loop does:   *)
(* 2^(k-1) iterations, then 2^(k-1) more.                                    *)

ScanOver(s) == s.local_level = 0 \/ s.err # "none"

(* forward_step that takes the end of the program for the matching Close *)
forward_step_clamped(inst, s) ==
  LET a == usize_add(s.pos, 1)
  IN IF ~a.ok \/ a.val >= Len(inst) THEN [s EXCEPT !.local_level = 0]
     ELSE LET op == At(inst, a.val).op
          IN [s EXCEPT !.pos = a.val,
                       !.local_level = CASE op = "Open" -> @ + 1
                                         [] op = "Close" -> @ - 1
                                         [] OTHER -> @]

(* the body of the loop of forward_ofset *)
forward_step(inst, s) ==
  LET a == usize_add(s.pos, 1)
  IN IF ~a.ok THEN [s EXCEPT !.err = "attempt to add with overflow"]
     ELSE IF a.val >= Len(inst) THEN [s EXCEPT !.pos = a.val, !.err = "index out of bounds"]
     ELSE LET op == At(inst, a.val).op
          IN [s EXCEPT !.pos = a.val,
                       !.local_level = CASE op = "Open" -> @ + 1
                                         [] op = "Close" -> @ - 1
                                         [] OTHER -> @]

RECURSIVE forward_while(_, _, _)
forward_while(inst, s, k) ==
  IF ScanOver(s) THEN s
  ELSE IF k = 0 THEN forward_step(inst, s)
  ELSE LET first == forward_while(inst, s, k - 1)
       IN IF ScanOver(first) THEN first ELSE forward_while(inst, first, k - 1)

forward_ofset(state, pos) ==
  forward_while(state.inst, [pos |-> pos, local_level |-> 1, err |-> "none"], USIZE_BITS)

(* rev_step that does not count the Closes it passes *)
rev_step_flat(inst, s) ==
  LET a == usize_sub(s.pos, 1)
  IN IF ~a.ok THEN [s EXCEPT !.err = "attempt to subtract with overflow"]
     ELSE IF a.val >= Len(inst) THEN [s EXCEPT !.pos = a.val, !.err = "index out of bounds"]
     ELSE LET op == At(inst, a.val).op
          IN [s EXCEPT !.pos = a.val,
                       !.local_level = IF op = "Open" THEN @ - 1 ELSE @]

(* the body of the loop of rev_ofset *)
rev_step(inst, s) ==
  LET a == usize_sub(s.pos, 1)
  IN IF ~a.ok THEN [s EXCEPT !.err = "attempt to subtract with overflow"]
     ELSE IF a.val >= Len(inst) THEN [s EXCEPT !.pos = a.val, !.err = "index out of bounds"]
     ELSE LET op == At(inst, a.val).op
          IN [s EXCEPT !.pos = a.val,
                       !.local_level = CASE op = "Open" -> @ - 1
                                         [] op = "Close" -> @ + 1
                                         [] OTHER -> @]

RECURSIVE rev_while(_, _, _)
rev_while(inst, s, k) ==
  IF ScanOver(s) THEN s
  ELSE IF k = 0 THEN rev_step(inst, s)
  ELSE LET first == rev_while(inst, s, k - 1)
       IN IF ScanOver(first) THEN first ELSE rev_while(inst, first, k - 1)

rev_ofset(state, pos) ==
  rev_while(state.inst, [pos |-> pos, local_level |-> 1, err |-> "none"], USIZE_BITS)

(* resolve_one that resolves the Opens only *)
resolve_one_open_only(r, i) ==
  IF r.err # "none" THEN r
  ELSE LET op == At(r.state.inst, i).op
       IN CASE op = "Open" ->
                 LET f == forward_ofset(r.state, i)
                 IN IF f.err # "none" THEN [r EXCEPT !.err = f.err]
                    ELSE [r EXCEPT !.state.inst[i + 1] = Tok("Open", f.pos)]
            [] OTHER -> r

(* resolve_one that takes the index after the Close for the target of an Open *)
resolve_one_past_close(r, i) ==
  IF r.err # "none" THEN r
  ELSE LET op == At(r.state.inst, i).op
       IN CASE op = "Open" ->
                 LET f == forward_ofset(r.state, i)
                 IN IF f.err # "none" THEN [r EXCEPT !.err = f.err]
                    ELSE [r EXCEPT !.state.inst[i + 1] = Tok("Open", f.pos + 1)]
            [] op = "Close" ->
                 LET f == rev_ofset(r.state, i)
                 IN IF f.err # "none" THEN [r EXCEPT !.err = f.err]
                    ELSE [r EXCEPT !.state.inst[i + 1] = Tok("Close", f.pos)]
            [] OTHER -> r

(* one iteration of the resolver pass; r is [err, state] *)
resolve_one(r, i) ==
  IF r.err # "none" THEN r
  ELSE LET op == At(r.state.inst, i).op
       IN CASE op = "Open" ->
                 LET f == forward_ofset(r.state, i)
                 IN IF f.err # "none" THEN [r EXCEPT !.err = f.err]
                    ELSE [r EXCEPT !.state.inst[i + 1] = Tok("Open", f.pos)]
            [] op = "Close" ->
                 LET f == rev_ofset(r.state, i)
                 IN IF f.err # "none" THEN [r EXCEPT !.err = f.err]
                    ELSE [r EXCEPT !.state.inst[i + 1] = Tok("Close", f.pos)]
            [] OTHER -> r

RECURSIVE resolve_loop(_, _, _)
resolve_loop(r, lo, hi) ==
  IF hi <= lo THEN r
  ELSE IF hi = lo + 1 THEN resolve_one(r, lo)
  ELSE LET mid == (lo + hi) \div 2
           first == resolve_loop(r, lo, mid)
       IN IF first.err # "none" THEN first ELSE resolve_loop(first, mid, hi)

Resolved(state) == resolve_loop([err |-> "none", state |-> state], 0, Len(state.inst))

----------------------------------------------------------------------------
(* The instruction handlers.  A machine is the State together with the      *)
(* standard streams and the panic message: [program, stdin, stdout, panic]. *)

Fault(m, msg) == [m EXCEPT !.panic = msg]

inc_data(m, amount) ==
  LET a == usize_add(m.program.memptr, amount)
      len == Len(m.program.memory)
  IN IF ~a.ok THEN Fault(m, "attempt to add with overflow")
     ELSE IF a.val >= len
          THEN IF a.val + 1 > IsizeMax
               THEN Fault([m EXCEPT !.program.memptr = a.val], "capacity overflow")
               ELSE [m EXCEPT !.program.memptr = a.val,
                              !.program.memory = @ \o Zeros(a.val - len + 1)]
          ELSE [m EXCEPT !.program.memptr = a.val]

(* dec_data that moves by one cell whatever the amount *)
dec_data_by_one(m, amount) ==
  LET a == usize_sub(m.program.memptr, 1)
  IN IF ~a.ok THEN Fault(m, "attempt to subtract with overflow")
     ELSE [m EXCEPT !.program.memptr = a.val]

dec_data(m, amount) ==
  LET a == usize_sub(m.program.memptr, amount)
  IN IF ~a.ok THEN Fault(m, "attempt to subtract with overflow")
     ELSE [m EXCEPT !.program.memptr = a.val]

InBounds(m) == m.program.memptr < Len(m.program.memory)

Cell(m) == At(m.program.memory, m.program.memptr)

incbyte(m, amount) ==
  IF ~InBounds(m) THEN Fault(m, "index out of bounds")
  ELSE [m EXCEPT !.program.memory[m.program.memptr + 1] = wrapping_add(@, amount)]

decbyte(m, amount) ==
  IF ~InBounds(m) THEN Fault(m, "index out of bounds")
  ELSE [m EXCEPT !.program.memory[m.program.memptr + 1] = wrapping_sub(@, amount)]

(* print!("{}", byte as char): the char U+0000..U+00FF written as UTF-8 *)
char_utf8(v) ==
  IF v < 128 THEN <<v>> ELSE <<192 + (v \div 64), 128 + (v % 64)>>

outbyte(m) ==
  IF ~InBounds(m) THEN Fault(m, "index out of bounds")
  ELSE [m EXCEPT !.stdout = @ \o char_utf8(Cell(m))]

(* inbyte that leaves the cell as it is at the end of the stream *)
inbyte_keep_on_eof(m) ==
  LET eof == m.stdin.pos >= Len(m.stdin.bytes)
  IN IF ~InBounds(m) THEN Fault(m, "index out of bounds")
     ELSE IF eof THEN m
     ELSE [m EXCEPT !.stdin.pos = @ + 1,
                    !.program.memory[m.program.memptr + 1] = At(m.stdin.bytes, m.stdin.pos)]

(* bytes().next(): the next byte, None at the end of the stream *)
inbyte(m) ==
  LET eof == m.stdin.pos >= Len(m.stdin.bytes)
      val == IF eof THEN 0 ELSE At(m.stdin.bytes, m.stdin.pos)
      rest == IF eof THEN m.stdin ELSE [m.stdin EXCEPT !.pos = @ + 1]
  IN IF ~InBounds(m) THEN Fault([m EXCEPT !.stdin = rest], "index out of bounds")
     ELSE [m EXCEPT !.stdin = rest,
                    !.program.memory[m.program.memptr + 1] = val]

(* jump_forward that forgets the target of the Open it leaves *)
jump_forward_unresolving(m, pos) ==
  [m EXCEPT !.program.instptr = pos,
            !.program.inst[m.program.instptr + 1] = Tok("Open", 1)]

jump_forward(m, pos) == [m EXCEPT !.program.instptr = pos]

(* jump_rev that lands after the Open *)
jump_rev_past_open(m, pos) == [m EXCEPT !.program.instptr = pos + 1]

jump_rev(m, pos) == [m EXCEPT !.program.instptr = pos]

(* advance that skips an instruction *)
advance_skipping(m) ==
  IF m.panic # "none" THEN m
  ELSE LET a == usize_add(m.program.instptr, 2)
       IN IF ~a.ok THEN Fault(m, "attempt to add with overflow")
          ELSE [m EXCEPT !.program.instptr = a.val]

(* program.instptr += 1 at the bottom of the loop *)
advance(m) ==
  IF m.panic # "none" THEN m
  ELSE LET a == usize_add(m.program.instptr, 1)
       IN IF ~a.ok THEN Fault(m, "attempt to add with overflow")
          ELSE [m EXCEPT !.program.instptr = a.val]

Running(m) == m.panic = "none" /\ m.program.instptr < Len(m.program.inst)

Fetch(m) == At(m.program.inst, m.program.instptr)

(* one iteration of the execution loop *)
dispatch(m) ==
  LET t == Fetch(m)
  IN CASE t.op = "Right" -> advance(inc_data(m, t.arg))
       [] t.op = "Left" -> advance(dec_data(m, t.arg))
       [] t.op = "Incriment" -> advance(incbyte(m, t.arg))
       [] t.op = "Decriment" -> advance(decbyte(m, t.arg))
       [] t.op = "Output" -> advance(outbyte(m))
       [] t.op = "Input" -> advance(inbyte(m))
       [] t.op = "Open" ->
            IF ~InBounds(m) THEN Fault(m, "index out of bounds")
            ELSE IF Cell(m) = 0 THEN advance(jump_forward(m, t.arg))
            ELSE advance(m)
       [] t.op = "Close" ->
            IF ~InBounds(m) THEN Fault(m, "index out of bounds")
            ELSE IF Cell(m) # 0 THEN jump_rev(m, t.arg)
            ELSE advance(m)

----------------------------------------------------------------------------
(* The process *)

Machine == [program |-> program, stdin |-> stdin, stdout |-> stdout, panic |-> panic]

(* "<<>>", ">><<", "[[]]", ",[.,]", "+++.", 300 times "+", 300 times "-" *)
Scenarios ==
  { HelloSrc,
    <<60, 60, 62, 62>>,
    <<62, 62, 60, 60>>,
    <<91, 91, 93, 93>>,
    <<44, 91, 46, 44, 93>>,
    <<43, 43, 43, 46>>,
    Rep(43, 300),
    Rep(45, 300) }

Sources == SeqsUpTo(SourceBytes, MaxLen) \cup Scenarios

Init ==
  /\ hello \in Sources
  /\ program = NewState
  /\ pc = "tokenize"
  /\ panic = "none"
  /\ stdin \in [bytes : SeqsUpTo(InputBytes, MaxInput), pos : {0}]
  /\ stdout = <<>>
  /\ overflow_checks \in BOOLEAN
  /\ trail = <<-1, -1>>

(* main, lines 134-151 *)
Tokenize ==
  /\ pc = "tokenize"
  /\ LET t == Tokenized(hello)
     IN program' = [program EXCEPT !.inst = t.inst, !.last = t.curr,
                                   !.memory = Append(@, 0)]
  /\ pc' = "fold"
  /\ UNCHANGED <<hello, panic, stdin, stdout, overflow_checks, trail>>

(* main, lines 153-217 *)
Fold ==
  /\ pc = "fold"
  /\ program' = [program EXCEPT !.inst = Folded(program.inst, program.last)]
  /\ pc' = "resolve"
  /\ UNCHANGED <<hello, panic, stdin, stdout, overflow_checks, trail>>

(* main, lines 219-231 *)
Resolve ==
  /\ pc = "resolve"
  /\ panic = "none"
  /\ LET r == Resolved(program)
     IN /\ program' = r.state
        /\ panic' = r.err
        /\ pc' = IF r.err = "none" THEN "run" ELSE "resolve"
  /\ UNCHANGED <<hello, stdin, stdout, overflow_checks, trail>>

(* main, lines 233-254: one iteration whose instruction is op *)
Dispatch(op) ==
  /\ pc = "run"
  /\ Running(Machine)
  /\ Fetch(Machine).op = op
  /\ op = "Output" => Len(stdout) < MaxOutput
  /\ LET m == dispatch(Machine)
     IN /\ program' = m.program
        /\ stdin' = m.stdin
        /\ stdout' = m.stdout
        /\ panic' = m.panic
  /\ trail' = <<trail[2], program.instptr>>
  /\ UNCHANGED <<hello, pc, overflow_checks>>

DispatchRight == Dispatch("Right")
DispatchLeft == Dispatch("Left")
DispatchIncriment == Dispatch("Incriment")
DispatchDecriment == Dispatch("Decriment")
DispatchOutput == Dispatch("Output")
DispatchInput == Dispatch("Input")
DispatchOpen == Dispatch("Open")
DispatchClose == Dispatch("Close")

(* main, line 255: the loop has ended, println!() *)
Println ==
  /\ pc = "run"
  /\ panic = "none"
  /\ program.instptr >= Len(program.inst)
  /\ stdout' = Append(stdout, 10)
  /\ pc' = "exit"
  /\ UNCHANGED <<hello, program, panic, stdin, overflow_checks, trail>>

Next ==
  \/ Tokenize
  \/ Fold
  \/ Resolve
  \/ DispatchRight
  \/ DispatchLeft
  \/ DispatchIncriment
  \/ DispatchDecriment
  \/ DispatchOutput
  \/ DispatchInput
  \/ DispatchOpen
  \/ DispatchClose
  \/ Println

Spec == Init /\ [][Next]_vars

----------------------------------------------------------------------------
(* Bracket structure, counted on the tokens and independent of the resolver *)

Indices(inst) == 0..(Len(inst) - 1)

(* Opens minus Closes among the tokens at indices below k *)
Depth(inst, k) ==
  Cardinality({x \in 0..(k - 1) : At(inst, x).op = "Open"})
  - Cardinality({x \in 0..(k - 1) : At(inst, x).op = "Close"})

Balanced(inst) ==
  /\ \A k \in 0..Len(inst) : Depth(inst, k) >= 0
  /\ Depth(inst, Len(inst)) = 0

(* the Close that matches the Open at i, in a balanced program *)
MatchClose(inst, i) ==
  CHOOSE j \in Indices(inst) :
    /\ j > i
    /\ Depth(inst, j + 1) = Depth(inst, i)
    /\ \A x \in (i + 1)..(j - 1) : Depth(inst, x + 1) > Depth(inst, i)

(* the Open that matches the Close at j, in a balanced program *)
MatchOpen(inst, j) ==
  CHOOSE i \in Indices(inst) :
    /\ i < j
    /\ At(inst, i).op = "Open"
    /\ MatchClose(inst, i) = j

Units == Tokenized(hello).inst

LoopEnded == pc = "run" /\ panic = "none" /\ program.instptr >= Len(program.inst)

Stopped == LoopEnded \/ pc = "exit" \/ panic # "none"

----------------------------------------------------------------------------
(* The reference run: the unit instructions of the source, resolved without *)
(* folding and run by the same execution loop on the same standard input.   *)

RECURSIVE run_while(_, _)
run_while(m, k) ==
  IF ~Running(m) THEN m
  ELSE IF k = 0 THEN dispatch(m)
  ELSE LET first == run_while(m, k - 1)
       IN IF ~Running(first) THEN first ELSE run_while(first, k - 1)

UnfoldedRun ==
  LET t == Tokenized(hello)
      r == Resolved([NewState EXCEPT !.inst = t.inst, !.last = t.curr, !.memory = <<0>>])
  IN run_while([program |-> r.state,
                stdin |-> [stdin EXCEPT !.pos = 0],
                stdout |-> <<>>,
                panic |-> r.err], RUN_BITS)

(* C1: for a bracket-balanced source, when the run of the folded program has  *)
(* ended (the loop is over or the process has panicked), the run of the       *)
(* unfolded program on the same input has ended the same way: both aborted or *)
(* neither, with the same output and, when neither aborted, the same tape.    *)
C1_FoldingPreservesBehaviour ==
  (pc = "run" /\ ~Running(Machine) /\ Balanced(Units)) =>
     LET u == UnfoldedRun
     IN /\ ~Running(u)
        /\ (u.panic = "none") <=> (panic = "none")
        /\ u.stdout = stdout
        /\ panic = "none" => u.program.memory = program.memory

(* C2: once a bracket-balanced program is resolved, the Open at i carries j   *)
(* exactly when the Close at j carries i.                                     *)
C2_TargetsMutualInverses ==
  (pc \in {"run", "exit"} /\ Balanced(program.inst)) =>
     \A i \in Indices(program.inst) :
        LET t == At(program.inst, i)
        IN /\ t.op = "Open" =>
                /\ t.arg \in Indices(program.inst)
                /\ At(program.inst, t.arg) = Tok("Close", i)
           /\ t.op = "Close" =>
                /\ t.arg \in Indices(program.inst)
                /\ At(program.inst, t.arg) = Tok("Open", i)

(* a resolved program with a loop nested in a loop *)
C2_Witness ==
  /\ pc = "run"
  /\ \E i, k \in Indices(program.inst) :
        /\ At(program.inst, i).op = "Open"
        /\ At(program.inst, k).op = "Open"
        /\ i < k
        /\ k < At(program.inst, i).arg

(* C3: a source with unbalanced brackets ends in a panic of the resolver pass: *)
(* the pass never completes, no instruction is dispatched, the tape stays the  *)
(* single zero cell, nothing is read and nothing is written.                   *)
C3_UnbalancedFailsBeforeRun ==
  /\ [](~Balanced(Units) =>
          /\ pc \in {"tokenize", "fold", "resolve"}
          /\ trail = <<-1, -1>>
          /\ program.memory \in {<<>>, <<0>>}
          /\ program.memptr = 0
          /\ stdin.pos = 0
          /\ stdout = <<>>)
  /\ [][(~Balanced(Units) /\ pc = "resolve") => (pc' = "resolve" /\ panic' # "none")]_vars

(* the resolver pass has panicked *)
C3_Witness ==
  /\ pc = "resolve"
  /\ panic # "none"
  /\ ~Balanced(Units)

(* C4: a Left(n) dispatched with n greater than the data pointer ends the run *)
(* there: the process panics, the data pointer keeps its value and the        *)
(* instruction pointer does not move on.                                      *)
C4_UnderflowIsFatal ==
  [][(/\ pc = "run"
      /\ Running(Machine)
      /\ Fetch(Machine).op = "Left"
      /\ Fetch(Machine).arg > program.memptr)
     => (/\ panic' # "none"
         /\ program'.memptr = program.memptr
         /\ program'.instptr = program.instptr)]_vars

(* C5: while the execution loop runs, the data pointer is an index of the tape *)
C5_PointerInBounds ==
  (pc = "run" /\ panic = "none") => program.memptr < Len(program.memory)

(* the machine of the next state *)
MachineNext == [program |-> program', stdin |-> stdin', stdout |-> stdout', panic |-> panic']

SameTape(m) == m.program.memory = program.memory /\ m.program.memptr = program.memptr

Max(a, b) == IF a >= b THEN a ELSE b

(* C7: a Right(n) dispatched with data pointer p and tape length L leaves the *)
(* pointer at p+n and the tape with max(L, p+n+1) cells: the old cells with   *)
(* their values, then zeros.                                                  *)
C7_TapeGrowth ==
  [][(/\ pc = "run"
      /\ Running(Machine)
      /\ Fetch(Machine).op = "Right"
      /\ panic' = "none")
     => LET n == Fetch(Machine).arg
            p == program.memptr
            L == Len(program.memory)
        IN /\ program'.memptr = p + n
           /\ Len(program'.memory) = Max(L, p + n + 1)
           /\ \A k \in 1..Len(program'.memory) :
                 program'.memory[k] = IF k <= L THEN program.memory[k] ELSE 0]_vars

HelloOut == <<72, 101, 108, 108, 111>>

(* C8: the run of the Hello source with no input never panics and ends: from *)
(* the resolved program the execution loop is over within 2^RUN_BITS          *)
(* dispatches, and when the loop has ended standard output holds exactly the  *)
(* bytes 72, 101, 108, 108, 111, written in that order.                       *)
C8_HelloPrintsHello ==
  (hello = HelloSrc /\ stdin.bytes = <<>>) =>
     /\ panic = "none"
     /\ (pc = "run" /\ trail = <<-1, -1>>) =>
           LET end == run_while(Machine, RUN_BITS)
           IN ~Running(end) /\ end.panic = "none" /\ end.stdout = HelloOut
     /\ pc = "run" => \E k \in 0..Len(HelloOut) : stdout = SubSeq(HelloOut, 1, k)
     /\ LoopEnded => stdout = HelloOut

(* the loop of the Hello run has ended *)
C8_Witness ==
  /\ hello = HelloSrc
  /\ stdin.bytes = <<>>
  /\ LoopEnded
  /\ stdout = HelloOut

(* the value of an 8-bit cell holding v after n is added, n in -255..255 *)
Wrap8(v, n) ==
  IF v + n > 255 THEN v + n - 256
  ELSE IF v + n < 0 THEN v + n + 256
  ELSE v + n

(* C9: Incriment(n) dispatched on a cell holding v leaves (v+n) mod 256 in it, *)
(* Decriment(n) leaves (v-n) mod 256; the data pointer, the length of the tape *)
(* and every other cell stay as they are.                                      *)
C9_CellArithmeticWraps ==
  [][(/\ pc = "run"
      /\ Running(Machine)
      /\ InBounds(Machine)
      /\ Fetch(Machine).op \in {"Incriment", "Decriment"})
     => LET t == Fetch(Machine)
            v == Cell(Machine)
            n == IF t.op = "Incriment" THEN t.arg ELSE 0 - t.arg
        IN /\ panic' = "none"
           /\ program'.memptr = program.memptr
           /\ program'.memory =
                 [program.memory EXCEPT ![program.memptr + 1] = Wrap8(v, n)]]_vars

(* "-+" has run: 0 decremented by 1 was 255, and 255 incremented by 1 is 0 *)
C9_Witness ==
  /\ pc = "run"
  /\ panic = "none"
  /\ trail[1] >= 0
  /\ At(program.inst, trail[1]) = Tok("Decriment", 1)
  /\ At(program.inst, trail[2]) = Tok("Incriment", 1)
  /\ trail[2] = trail[1] + 1
  /\ program.memory = <<0>>

(* C10: in every state of the execution loop and for every n in 1..MaxMove, *)
(* inc_data(n) followed by dec_data(n), when the move right succeeds,       *)
(* returns the data pointer to its value and keeps every cell of the tape,  *)
(* which may only have gained zero cells on the right.                      *)
C10_MoveRoundTrip ==
  (pc = "run" /\ panic = "none") =>
     \A n \in 1..MaxMove :
        LET right == inc_data(Machine, n)
            back == dec_data(right, n)
            L == Len(program.memory)
        IN right.panic = "none" =>
              /\ back.panic = "none"
              /\ back.program.memptr = program.memptr
              /\ Len(back.program.memory) >= L
              /\ \A k \in 1..Len(back.program.memory) :
                    back.program.memory[k] = IF k <= L THEN program.memory[k] ELSE 0

(* a Right(n) and then a Left(n) have just been dispatched, the tape grew *)
C10_Witness ==
  /\ pc = "run"
  /\ panic = "none"
  /\ trail[1] >= 0
  /\ trail[2] = trail[1] + 1
  /\ At(program.inst, trail[1]).op = "Right"
  /\ At(program.inst, trail[2]).op = "Left"
  /\ At(program.inst, trail[1]).arg = At(program.inst, trail[2]).arg
  /\ At(program.inst, trail[1]).arg > 1
  /\ program.memptr = 0
  /\ Len(program.memory) > 1

----------------------------------------------------------------------------
(* C11: an Input dispatched on a cell of the tape reads one byte: the next     *)
(* unread byte of standard input goes into the cell at the data pointer and is *)
(* consumed, and at the end of the input the cell becomes 0 and nothing is     *)
(* consumed.  The run goes on at the next instruction without a panic; the     *)
(* data pointer, every other cell and standard output stay as they are.  The   *)
(* source ",." with the input byte 65 has written exactly 65 when its loop     *)
(* ends.                                                                       *)
C11_InputReadsOneByte ==
  /\ [][(/\ pc = "run"
         /\ Running(Machine)
         /\ InBounds(Machine)
         /\ Fetch(Machine).op = "Input")
        => LET eof == stdin.pos >= Len(stdin.bytes)
           IN /\ panic' = "none"
              /\ program'.instptr = program.instptr + 1
              /\ program'.memptr = program.memptr
              /\ program'.memory =
                    [program.memory EXCEPT ![program.memptr + 1] =
                        IF eof THEN 0 ELSE stdin.bytes[stdin.pos + 1]]
              /\ stdin'.bytes = stdin.bytes
              /\ stdin'.pos = IF eof THEN stdin.pos ELSE stdin.pos + 1
              /\ stdout' = stdout]_vars
  /\ []((hello = <<44, 46>> /\ stdin.bytes = <<65>> /\ LoopEnded) => stdout = <<65>>)

(* ",." has read 65 and written it *)
C11_Witness ==
  /\ hello = <<44, 46>>
  /\ stdin.bytes = <<65>>
  /\ stdin.pos = 1
  /\ LoopEnded
  /\ program.memory = <<65>>
  /\ stdout = <<65>>

(* C12: standard output grows only by an Output, and then by exactly one     *)
(* element, the value of the current cell; no other step writes anything, the *)
(* end of the run included.  The completed run of "+++." has written exactly  *)
(* the single byte 3.                                                         *)
C12_OutputIsExactlyTheOutputs ==
  /\ [][stdout' = IF /\ pc = "run"
                     /\ Running(Machine)
                     /\ InBounds(Machine)
                     /\ Fetch(Machine).op = "Output"
                  THEN Append(stdout, Cell(Machine))
                  ELSE stdout]_vars
  /\ []((hello = <<43, 43, 43, 46>> /\ pc = "exit") => stdout = <<3>>)

(* the eight operator characters > < + - . , [ ] and the kind each stands for *)
OperatorBytes == {62, 60, 43, 45, 46, 44, 91, 93}

IsOperator(b) == b \in OperatorBytes

KindOf(b) ==
  CASE b = 62 -> "Right"
    [] b = 60 -> "Left"
    [] b = 43 -> "Incriment"
    [] b = 45 -> "Decriment"
    [] b = 46 -> "Output"
    [] b = 44 -> "Input"
    [] b = 91 -> "Open"
    [] b = 93 -> "Close"

Foldable == {"Right", "Left", "Incriment", "Decriment"}

(* C13: the tokenizer never fails; the instructions it leaves are the units of *)
(* the operator bytes of the source, in source order, one per operator byte    *)
(* and count 1 where a unit has a count, and `last` is the number of operator  *)
(* bytes.  A source without operator bytes gives the empty program: no pass    *)
(* panics, no instruction is dispatched, and the loop is over at once with the *)
(* tape [0].                                                                   *)
C13_LexerKeepsOperators ==
  LET ops == SelectSeq(hello, IsOperator)
  IN /\ pc = "fold" =>
           /\ panic = "none"
           /\ Len(program.inst) = Len(ops)
           /\ program.last = Len(ops)
           /\ \A k \in 1..Len(ops) :
                 /\ program.inst[k].op = KindOf(ops[k])
                 /\ program.inst[k].op \in Foldable => program.inst[k].arg = 1
     /\ (ops = <<>> /\ pc # "tokenize") =>
           /\ panic = "none"
           /\ program.inst = <<>>
           /\ program.memory = <<0>>
           /\ program.memptr = 0
           /\ trail = <<-1, -1>>
           /\ pc = "run" => LoopEnded

(* the tokenizer has skipped a byte between two operators *)
C13_Witness ==
  /\ pc = "fold"
  /\ Len(hello) = 3
  /\ IsOperator(hello[1])
  /\ ~IsOperator(hello[2])
  /\ IsOperator(hello[3])
  /\ program.last = 2

----------------------------------------------------------------------------
(* The maximal runs of a sequence of unit instructions: a run starts at index *)
(* 0, at every instruction that is not Right, Left, Incriment or Decriment,   *)
(* and at every instruction whose kind differs from the one before it.        *)

RunStart(units, i) ==
  \/ i = 0
  \/ At(units, i).op \notin Foldable
  \/ At(units, i - 1).op # At(units, i).op

RunStarts(units) == {i \in Indices(units) : RunStart(units, i)}

(* the length of the run that starts at s *)
RunLen(units, s) ==
  LET later == {x \in RunStarts(units) : x > s}
      next == IF later = {} THEN Len(units)
              ELSE CHOOSE x \in later : \A y \in later : x <= y
  IN next - s

(* the number of runs that start before s *)
RunRank(units, s) == Cardinality({x \in RunStarts(units) : x < s})

(* the folding pass has just completed *)
JustFolded == pc = "resolve" /\ panic = "none"

(* C14: the folded program has one instruction per maximal run of the units,  *)
(* in the order of the runs and of the kind of the run; a Right or a Left     *)
(* carries the length of its run, which is at least 1; an Open, a Close, an   *)
(* Input or an Output is a run of its own and is kept as it is.  So no two    *)
(* neighbours of the folded program are of the same foldable kind, and the    *)
(* folded program is no longer than the units.                                *)
C14_FolderStructure ==
  JustFolded =>
     LET units == Units
         folded == program.inst
         starts == RunStarts(units)
     IN /\ Len(folded) = Cardinality(starts)
        /\ Len(folded) <= Len(units)
        /\ \A s \in starts :
              LET t == At(folded, RunRank(units, s))
                  u == At(units, s)
              IN /\ t.op = u.op
                 /\ u.op \in {"Right", "Left"} =>
                       (t.arg = RunLen(units, s) /\ t.arg >= 1)
                 /\ u.op \notin Foldable => (t = u /\ RunLen(units, s) = 1)
        /\ \A k \in 1..(Len(folded) - 1) :
              folded[k].op \in Foldable => folded[k + 1].op # folded[k].op

(* a folded program where a run of Lefts was merged and a loop was kept *)
C14_Witness ==
  /\ JustFolded
  /\ Len(program.inst) < program.last
  /\ \E k \in 1..Len(program.inst) :
        program.inst[k].op = "Left" /\ program.inst[k].arg > 1
  /\ \E k \in 1..Len(program.inst) : program.inst[k].op = "Close"

(* a machine whose tape is the single cell v, the data pointer on it *)
OneCell(v) ==
  [program |-> [NewState EXCEPT !.memory = <<v>>],
   stdin |-> stdin, stdout |-> <<>>, panic |-> "none"]

(* C15: the instruction folded from a run of k Incriment units, applied once   *)
(* to a cell holding v, leaves (v + k) mod 256, and the one folded from k      *)
(* Decriment units leaves (v - k) mod 256, for every v in 0..255 and every run *)
(* of the source, the runs of 300 included; the count is a u8 and the folding  *)
(* pass does not panic.  The run of 300 times "+" ends with the cell at 44,    *)
(* the run of 300 times "-" with the cell at 212.                              *)
C15_FoldedCountsWrap ==
  /\ JustFolded =>
        \A s \in RunStarts(Units) :
           LET t == At(program.inst, RunRank(Units, s))
               k == RunLen(Units, s)
           IN /\ t.op = "Incriment" =>
                    /\ t.arg \in 0..(U8Mod - 1)
                    /\ \A v \in 0..(U8Mod - 1) :
                          incbyte(OneCell(v), t.arg).program.memory = <<(v + k) % U8Mod>>
              /\ t.op = "Decriment" =>
                    /\ t.arg \in 0..(U8Mod - 1)
                    /\ \A v \in 0..(U8Mod - 1) :
                          decbyte(OneCell(v), t.arg).program.memory = <<(v - k) % U8Mod>>
  /\ pc = "fold" => panic = "none"
  /\ (hello = Rep(43, 300) /\ LoopEnded) => program.memory = <<300 % U8Mod>>
  /\ (hello = Rep(45, 300) /\ LoopEnded) => program.memory = <<(0 - 300) % U8Mod>>

(* the run of 300 times "+" has ended *)
C15_Witness ==
  /\ hello = Rep(43, 300)
  /\ LoopEnded
  /\ program.inst = <<Tok("Incriment", 44)>>
  /\ program.memory = <<44>>

----------------------------------------------------------------------------
(* the instructions strictly between the indices i and j *)
Between(inst, i, j) == SubSeq(inst, i + 2, j)

WellFormed(inst) ==
  \A i \in Indices(inst) :
     LET t == At(inst, i)
     IN /\ t.op = "Open" =>
             /\ t.arg \in Indices(inst)
             /\ t.arg > i
             /\ At(inst, t.arg).op = "Close"
             /\ Balanced(Between(inst, i, t.arg))
        /\ t.op = "Close" =>
             /\ t.arg \in Indices(inst)
             /\ t.arg < i
             /\ At(inst, t.arg).op = "Open"
             /\ Balanced(Between(inst, t.arg, i))

(* C16: the resolver pass on a bracket-balanced program completes without a   *)
(* panic and leaves a well-formed program: the target of every Open is a      *)
(* later index that holds a Close, the target of every Close an earlier index *)
(* that holds an Open, and the instructions between a bracket and its target  *)
(* are bracket-balanced.  The pass keeps the length of the program, the kind  *)
(* at every index and every instruction that is not a bracket, and leaves the *)
(* rest of the state alone.                                                   *)
C16_ResolverWellFormed ==
  [][(JustFolded /\ Balanced(program.inst))
     => /\ panic' = "none"
        /\ pc' = "run"
        /\ WellFormed(program'.inst)
        /\ Len(program'.inst) = Len(program.inst)
        /\ \A k \in 1..Len(program.inst) :
              /\ program'.inst[k].op = program.inst[k].op
              /\ program.inst[k].op \notin {"Open", "Close"} =>
                    program'.inst[k] = program.inst[k]
        /\ program' = [program EXCEPT !.inst = program'.inst]]_vars

(* the resolver pass has completed on a loop with a body *)
C16_Witness ==
  /\ pc = "run"
  /\ trail = <<-1, -1>>
  /\ \E i \in Indices(program.inst) :
        /\ At(program.inst, i).op = "Open"
        /\ At(program.inst, i).arg > i + 1
        /\ At(program.inst, At(program.inst, i).arg) = Tok("Close", i)
        /\ At(program.inst, i + 1).op \notin {"Open", "Close"}

----------------------------------------------------------------------------
BracketFree(inst) == \A i \in Indices(inst) : At(inst, i).op \notin {"Open", "Close"}

(* the instruction about to be dispatched is a jump that will be taken *)
JumpTaken(m) ==
  /\ InBounds(m)
  /\ \/ Fetch(m).op = "Open" /\ Cell(m) = 0
     \/ Fetch(m).op = "Close" /\ Cell(m) # 0

(* the instruction about to be dispatched moves the data pointer below 0 *)
Underflows(m) == Fetch(m).op = "Left" /\ Fetch(m).arg > m.program.memptr

(* from m, about to dispatch index k, the run dispatches k, k+1, ... in order *)
(* up to an instruction that underflows, or up to the last one and then ends  *)
RECURSIVE StraightRun(_, _)
StraightRun(m, k) ==
  IF k = Len(m.program.inst)
  THEN ~Running(m) /\ m.panic = "none" /\ m.program.instptr = k
  ELSE /\ Running(m)
       /\ m.program.instptr = k
       /\ Underflows(m) \/ StraightRun(dispatch(m), k + 1)

(* C17: the execution loop is left for the end of main exactly from the states *)
(* whose instruction pointer is at or past the length of the program; every    *)
(* dispatch that is not a taken jump and does not panic moves the instruction  *)
(* pointer on by exactly 1.  A bracket-free program of N instructions whose    *)
(* run does not underflow the data pointer ends after exactly N dispatches, of *)
(* the indices 0..N-1 in order; in every run of a bracket-free program the     *)
(* instructions dispatched so far are those before the instruction pointer.    *)
C17_StraightLineRun ==
  /\ [][(pc = "run" /\ panic = "none")
        => ((pc' = "exit") <=> (program.instptr >= Len(program.inst)))]_vars
  /\ [][(/\ pc = "run"
         /\ Running(Machine)
         /\ ~JumpTaken(Machine)
         /\ panic' = "none")
        => program'.instptr = program.instptr + 1]_vars
  /\ []((pc = "run" /\ trail = <<-1, -1>> /\ BracketFree(program.inst))
          => StraightRun(Machine, 0))
  /\ []((pc \in {"run", "exit"} /\ BracketFree(program.inst) /\ panic = "none")
          => /\ trail[2] = program.instptr - 1
             /\ trail[1] = Max(program.instptr - 2, -1))

(* the run of a bracket-free program of three instructions, a Left that does *)
(* not underflow among them, has ended after the dispatch of index 2         *)
C17_Witness ==
  /\ LoopEnded
  /\ Len(program.inst) = 3
  /\ At(program.inst, 0).op = "Right"
  /\ At(program.inst, 1).op = "Left"
  /\ BracketFree(program.inst)
  /\ program.instptr = 3
  /\ trail = <<1, 2>>

(* C18: once the folding and the resolver pass are complete, `last` is the *)
(* length of the program that the execution loop runs.                     *)
C18_LastIsProgramLength ==
  pc \in {"run", "exit"} => program.last = Len(program.inst)

(* C19: no step of the execution loop changes the program: the sequence of   *)
(* instructions, with its kinds, counts and jump targets, is after every      *)
(* dispatch, of a taken or not-taken jump too, and after the end of the loop, *)
(* what it was before.                                                        *)
C19_ProgramNeverMutated ==
  [][pc = "run" => program'.inst = program.inst]_vars

(* an Open has just been taken, after an earlier dispatch *)
C19_Witness ==
  /\ pc = "run"
  /\ panic = "none"
  /\ trail[1] >= 0
  /\ At(program.inst, trail[2]).op = "Open"
  /\ program.instptr = At(program.inst, trail[2]).arg + 1

(* C20: while and after a resolved balanced program runs, the instruction    *)
(* pointer is between 0 and the length of the program, so that the loop       *)
(* fetches only at indices of the program; a taken Open leaves the            *)
(* instruction pointer one past its Close and not past the length of the      *)
(* program, and a taken Close leaves it on an index that holds an Open.       *)
C20_InstructionPointerInBounds ==
  /\ []((pc \in {"run", "exit"} /\ Balanced(program.inst))
          => /\ program.instptr \in 0..Len(program.inst)
             /\ Running(Machine) => program.instptr \in Indices(program.inst))
  /\ [][(/\ pc = "run"
         /\ Running(Machine)
         /\ Balanced(program.inst)
         /\ JumpTaken(Machine))
        => /\ panic' = "none"
           /\ Fetch(Machine).op = "Open" =>
                 /\ program'.instptr = Fetch(Machine).arg + 1
                 /\ At(program.inst, Fetch(Machine).arg).op = "Close"
                 /\ program'.instptr <= Len(program.inst)
           /\ Fetch(Machine).op = "Close" =>
                 /\ program'.instptr \in Indices(program.inst)
                 /\ At(program.inst, program'.instptr).op = "Open"]_vars

(* a taken Open whose Close is the last instruction has ended the loop *)
C20_Witness ==
  /\ LoopEnded
  /\ trail[2] >= 0
  /\ At(program.inst, trail[2]).op = "Open"
  /\ At(program.inst, trail[2]).arg = Len(program.inst) - 1
  /\ program.instptr = Len(program.inst)

====
